---- MODULE Spec2Model ----
(***************************************************************************)
(* Model of scripts/ast-review-python.py: the rule-based review of Python  *)
(* files (eight checks over a parsed tree and the raw source lines), the   *)
(* per-file accounting and sort in main, the verdict and the exit status.  *)
(*                                                                         *)
(* A parsed tree is a sequence of nodes listed in source order; node 1 is  *)
(* the Module and every other node names its parent.  A source line is a   *)
(* record of the three facts the code asks of it: whether its stripped     *)
(* text starts with '#', whether it contains '#', and which entries of     *)
(* SECRET_PATTERNS find a match in it.                                     *)
(***************************************************************************)
EXTENDS Integers, Sequences, FiniteSets

VARIABLES
    pc,              \* position in the script
    py_files,        \* main: the list collect_py_files returned
    under_root,      \* whether the collected paths lie under the project root
    idx,             \* main: index of the next file of the for loop
    findings,        \* main: the findings list
    clean_files,     \* main: the clean_files list
    scanned,         \* main: the scanned counter
    critical_count,  \* main: sum over CRITICAL findings
    warning_count,   \* main: sum over WARNING findings
    verdict,         \* the label printed on the VERDICT line
    exit_status,     \* the status handed to sys.exit (-1 while running)
    raised,          \* where an exception that left main was raised
    log,             \* history: what each file of the loop was when analysed
    unsorted,        \* history: the findings list just before findings.sort
    tree,            \* input of a single rule: the parsed tree
    lines,           \* input of a single rule: the source lines of the file
    opened           \* whether the rule's own open() of the file succeeded

vars == <<pc, py_files, under_root, idx, findings, clean_files, scanned,
          critical_count, warning_count, verdict, exit_status, raised, log,
          unsorted, tree, lines, opened>>

(***************************************************************************)
(* Bounds                                                                  *)
(***************************************************************************)
MaxFiles == 2
MaxNodes == 6
MaxLines == 2

(***************************************************************************)
(* Sequences helpers                                                       *)
(***************************************************************************)
Indices(s) == [i \in 1..Len(s) |-> i]

Range(s) == {s[i] : i \in 1..Len(s)}

\* kw in name, for strings given as sequences of characters
Contains(s, kw) ==
    \E i \in 1..(Len(s) - Len(kw) + 1) : SubSeq(s, i, i + Len(kw) - 1) = kw

\* str.startswith with a one-character prefix
StartsWith(s, ch) == Len(s) > 0 /\ s[1] = ch

\* a < b for strings given as sequences of character codes (Python str order)
StrLess(a, b) ==
    \E k \in 1..(Len(a) + 1) :
        /\ k <= Len(b)
        /\ \A j \in 1..(k - 1) : a[j] = b[j]
        /\ (k = Len(a) + 1 \/ a[k] < b[k])

(***************************************************************************)
(* Finding                                                                 *)
(***************************************************************************)
\* issue texts that interpolate a value carry it beside the text:
\* label (secret label, method or callee name), name (function name), n (count)
Issue(text, label, name, n) ==
    [text |-> text, label |-> label, name |-> name, n |-> n]

Finding(file, line, severity, confidence, issue, fix) ==
    [file |-> file, line |-> line, severity |-> severity,
     confidence |-> confidence, issue |-> issue, fix |-> fix]

(***************************************************************************)
(* Config                                                                  *)
(***************************************************************************)
\* the labels of the table, in table order; entry k matches a line exactly
\* when k is among the line's hits
SECRET_PATTERNS ==
    << "Stripe key", "Hardcoded secret", "Hardcoded Bearer token",
       "Private key in source", "GitHub token", "AWS access key",
       "Slack token" >>

AUTH_DECORATORS ==
    { "login_required", "permission_required", "user_passes_test",
      "staff_member_required", "jwt_required", "auth_required",
      "requires_auth", "authenticated", "permissions_required", "api_view" }

ViewKeywords ==
    { <<"v","i","e","w">>, <<"g","e","t">>, <<"p","o","s","t">>,
      <<"p","u","t">>, <<"d","e","l","e","t","e">>, <<"p","a","t","c","h">>,
      <<"l","i","s","t">>, <<"c","r","e","a","t","e">>,
      <<"u","p","d","a","t","e">>, <<"d","e","s","t","r","o","y">>,
      <<"r","e","t","r","i","e","v","e">> }

dangerous_methods == { "execute", "raw", "extra", "executemany" }

(***************************************************************************)
(* Trees                                                                   *)
(***************************************************************************)
NoFunc == [form |-> "", id |-> ""]

Node(kind, parent, field, lineno) ==
    [kind |-> kind, parent |-> parent, field |-> field, lineno |-> lineno,
     name |-> <<>>, decorator_list |-> <<>>, returns |-> FALSE,
     type |-> FALSE, func |-> NoFunc, arg0 |-> ""]

Module == Node("Module", 0, "", 0)

FunctionDef(parent, lineno, name, decorator_list, returns) ==
    [Node("FunctionDef", parent, "body", lineno) EXCEPT
        !.name = name, !.decorator_list = decorator_list, !.returns = returns]

ExceptHandler(parent, lineno, type) ==
    [Node("ExceptHandler", parent, "handlers", lineno) EXCEPT !.type = type]

Call(parent, field, lineno, form, id, arg0) ==
    [Node("Call", parent, field, lineno) EXCEPT
        !.func = [form |-> form, id |-> id], !.arg0 = arg0]

\* ast.iter_child_nodes: the direct children of node n, in field order
iter_child_nodes(t, n) == SelectSeq(Indices(t), LAMBDA j : t[j].parent = n)

\* ast.walk: todo = deque([node]); popleft, extend with the children, yield
RECURSIVE WalkQueue(_, _, _)
WalkQueue(t, todo, out) ==
    IF todo = <<>> THEN out
    ELSE WalkQueue(t, Tail(todo) \o iter_child_nodes(t, Head(todo)),
                   Append(out, Head(todo)))

walk(t) == WalkQueue(t, <<1>>, <<>>)

\* node.body of an ExceptHandler
body(t, n) == SelectSeq(iter_child_nodes(t, n), LAMBDA j : t[j].field = "body")

(***************************************************************************)
(* The rules.  Each operator is the sequence of findings the function      *)
(* appends to the findings list, in append order.                          *)
(***************************************************************************)
\* the names collected from node.decorator_list
decorator_names(node) ==
    { node.decorator_list[k].id : k \in
        { k \in 1..Len(node.decorator_list) :
            node.decorator_list[k].form \in
                {"Name", "Attribute", "Call.Name", "Call.Attribute"} } }

is_view(name) == \E kw \in ViewKeywords : Contains(name, kw)

check_missing_auth(t, rel_path) ==
    LET hit == SelectSeq(walk(t), LAMBDA n :
                   /\ t[n].kind = "FunctionDef"
                   /\ is_view(t[n].name)
                   /\ decorator_names(t[n]) \cap AUTH_DECORATORS = {})
    IN  [k \in 1..Len(hit) |->
            Finding(rel_path, t[hit[k]].lineno, "CRITICAL", 85,
                    Issue("Function appears to be a view but has no auth decorator",
                          "", t[hit[k]].name, 0),
                    "Add @login_required, @permission_required, or equivalent auth decorator")]

check_bare_except(t, rel_path) ==
    LET hit == SelectSeq(walk(t), LAMBDA n :
                   t[n].kind = "ExceptHandler" /\ ~t[n].type)
    IN  [k \in 1..Len(hit) |->
            Finding(rel_path, t[hit[k]].lineno, "WARNING", 90,
                    Issue("Bare except: block catches all exceptions including SystemExit/KeyboardInterrupt",
                          "", <<>>, 0),
                    "Use 'except Exception:' or catch specific exception types")]

\* the line numbers of the print() calls, in the order ast.walk yields them
prints(t) ==
    LET hit == SelectSeq(walk(t), LAMBDA n :
                   /\ t[n].kind = "Call"
                   /\ t[n].func.form = "Name"
                   /\ t[n].func.id = "print")
    IN  [k \in 1..Len(hit) |-> t[hit[k]].lineno]

check_print_statements_ge3(t, rel_path) ==
    IF Len(prints(t)) >= 3
    THEN << Finding(rel_path, prints(t)[1], "WARNING", 80,
                    Issue("print() statements found in production code",
                          "", <<>>, Len(prints(t))),
                    "Replace with logging module (import logging; logger = logging.getLogger(__name__))") >>
    ELSE [k \in 1..Len(prints(t)) |->
            Finding(rel_path, prints(t)[k], "WARNING", 75,
                    Issue("print() statement in production code", "", <<>>, 0),
                    "Replace with logging.info() or logging.debug()")]

check_print_statements(t, rel_path) ==
    IF Len(prints(t)) > 3
    THEN << Finding(rel_path, prints(t)[1], "WARNING", 80,
                    Issue("print() statements found in production code",
                          "", <<>>, Len(prints(t))),
                    "Replace with logging module (import logging; logger = logging.getLogger(__name__))") >>
    ELSE [k \in 1..Len(prints(t)) |->
            Finding(rel_path, prints(t)[k], "WARNING", 75,
                    Issue("print() statement in production code", "", <<>>, 0),
                    "Replace with logging.info() or logging.debug()")]

check_eval_exec(t, rel_path) ==
    LET hit == SelectSeq(walk(t), LAMBDA n :
                   /\ t[n].kind = "Call"
                   /\ t[n].func.form = "Name"
                   /\ t[n].func.id \in {"eval", "exec"})
    IN  [k \in 1..Len(hit) |->
            Finding(rel_path, t[hit[k]].lineno, "CRITICAL", 95,
                    Issue("() can execute arbitrary code - code injection risk",
                          t[hit[k]].func.id, <<>>, 0),
                    "Replace with safe alternatives (ast.literal_eval, importlib, etc.)")]

check_sql_injection(t, rel_path) ==
    LET hit == SelectSeq(walk(t), LAMBDA n :
                   /\ t[n].kind = "Call"
                   /\ t[n].func.form = "Attribute"
                   /\ t[n].func.id \in dangerous_methods
                   /\ t[n].arg0 \in {"JoinedStr", "BinOp.Add", "BinOp.Mod"})
    IN  [k \in 1..Len(hit) |->
            IF t[hit[k]].arg0 = "JoinedStr"
            THEN Finding(rel_path, t[hit[k]].lineno, "CRITICAL", 95,
                         Issue("SQL injection: f-string passed to method",
                               t[hit[k]].func.id, <<>>, 0),
                         "Use parameterized queries: cursor.execute('SELECT ... WHERE id = %s', [user_id])")
            ELSE Finding(rel_path, t[hit[k]].lineno, "CRITICAL", 90,
                         Issue("SQL injection: string concatenation/format in method",
                               t[hit[k]].func.id, <<>>, 0),
                         "Use parameterized queries instead of string concatenation")]

\* the result of open(filepath) ... f.readlines() inside a rule
Opened(ls) == [ok |-> TRUE, lines |-> ls]
OpenFailed == [ok |-> FALSE, lines |-> <<>>]

SecretFinding(rel_path, i, k) ==
    Finding(rel_path, i, "CRITICAL", 90,
            Issue("Hardcoded secret detected", SECRET_PATTERNS[k], <<>>, 0),
            "Move to environment variable or secrets manager")

\* the inner loop over SECRET_PATTERNS from entry k on, for line number i
RECURSIVE ScanPatterns(_, _, _, _)
ScanPatterns(rel_path, i, line, k) ==
    IF k > Len(SECRET_PATTERNS) THEN <<>>
    ELSE IF k \in line.hits
         THEN << SecretFinding(rel_path, i, k) >>          \* break
         ELSE ScanPatterns(rel_path, i, line, k + 1)

\* the same loop without the break
RECURSIVE ScanPatternsNoBreak(_, _, _, _)
ScanPatternsNoBreak(rel_path, i, line, k) ==
    IF k > Len(SECRET_PATTERNS) THEN <<>>
    ELSE IF k \in line.hits
         THEN << SecretFinding(rel_path, i, k) >>
              \o ScanPatternsNoBreak(rel_path, i, line, k + 1)
         ELSE ScanPatternsNoBreak(rel_path, i, line, k + 1)

RECURSIVE ScanLinesNoBreak(_, _, _)
ScanLinesNoBreak(rel_path, ls, i) ==
    IF i > Len(ls) THEN <<>>
    ELSE (IF ls[i].comment THEN <<>>
          ELSE ScanPatternsNoBreak(rel_path, i, ls[i], 1))
         \o ScanLinesNoBreak(rel_path, ls, i + 1)

\* the outer loop over the lines from line number i on
RECURSIVE ScanLines(_, _, _)
ScanLines(rel_path, ls, i) ==
    IF i > Len(ls) THEN <<>>
    ELSE (IF ls[i].comment THEN <<>>                       \* continue
          ELSE ScanPatterns(rel_path, i, ls[i], 1))
         \o ScanLines(rel_path, ls, i + 1)

check_hardcoded_secrets_nobreak(rd, rel_path) ==
    IF ~rd.ok THEN <<>> ELSE ScanLinesNoBreak(rel_path, rd.lines, 1)

check_hardcoded_secrets(rd, rel_path) ==
    IF ~rd.ok THEN <<>> ELSE ScanLines(rel_path, rd.lines, 1)

IsPublic(node) == ~StartsWith(node.name, "_")

TypeHintFinding(rel_path, node, text) ==
    Finding(rel_path, node.lineno, "WARNING", 70,
            Issue(text, "", node.name, 0),
            "Add return type: def name(...) -> ReturnType:")

\* the loop over ast.iter_child_nodes(tree), from position k of kids on
RECURSIVE TypeHintsOver(_, _, _, _)
TypeHintsOver(t, rel_path, kids, k) ==
    IF k > Len(kids) THEN <<>>
    ELSE LET n == kids[k]
             here ==
               IF t[n].kind = "ClassDef"
               THEN LET items == SelectSeq(iter_child_nodes(t, n), LAMBDA m :
                                    /\ t[m].kind = "FunctionDef"
                                    /\ IsPublic(t[m])
                                    /\ ~t[m].returns)
                    IN  [j \in 1..Len(items) |->
                            TypeHintFinding(rel_path, t[items[j]],
                                "Public method has no return type hint")]
               ELSE IF t[n].kind = "FunctionDef" /\ IsPublic(t[n]) /\ ~t[n].returns
               THEN << TypeHintFinding(rel_path, t[n],
                           "Public function has no return type hint") >>
               ELSE <<>>
         IN  here \o TypeHintsOver(t, rel_path, kids, k + 1)

check_missing_type_hints(t, rel_path) ==
    TypeHintsOver(t, rel_path, iter_child_nodes(t, 1), 1)

check_empty_except_body(t, rd, rel_path) ==
    IF ~rd.ok THEN <<>>
    ELSE LET hit == SelectSeq(walk(t), LAMBDA n :
                      /\ t[n].kind = "ExceptHandler"
                      /\ Len(body(t, n)) = 1
                      /\ t[body(t, n)[1]].kind = "Pass"
                      /\ t[body(t, n)[1]].lineno - 1 < Len(rd.lines)
                      /\ ~rd.lines[t[body(t, n)[1]].lineno].hash)
         IN  [k \in 1..Len(hit) |->
                Finding(rel_path, t[hit[k]].lineno, "WARNING", 85,
                        Issue("Empty except block silently swallows errors",
                              "", <<>>, 0),
                        "Add error logging, re-raise, or add a comment explaining why")]

(***************************************************************************)
(* analyze_file                                                            *)
(***************************************************************************)
\* what a later open() of the same path yields: the file as it was read the
\* first time, an error, or a file emptied in between
Reread(content, r) ==
    CASE r = "same"    -> Opened(content.lines)
      [] r = "error"   -> OpenFailed
      [] r = "changed" -> Opened(<<>>)

RereadOutcomes == {"same", "error", "changed"}

Result(ret, exc, appended) == [ret |-> ret, exc |-> exc, appended |-> appended]

\* the eight checks in the order of the code
RunRules(content, rel_path, r_except, r_secrets) ==
    check_missing_auth(content.tree, rel_path)
    \o check_bare_except(content.tree, rel_path)
    \o check_empty_except_body(content.tree, Reread(content, r_except), rel_path)
    \o check_print_statements(content.tree, rel_path)
    \o check_eval_exec(content.tree, rel_path)
    \o check_sql_injection(content.tree, rel_path)
    \o check_hardcoded_secrets(Reread(content, r_secrets), rel_path)
    \o check_missing_type_hints(content.tree, rel_path)

\* file: [readable, content]; content.parse is what ast.parse does with the
\* text: "ok" (a tree), "SyntaxError", or "RecursionError" (any exception of
\* ast.parse that is not a SyntaxError: RecursionError, MemoryError)
analyze_file(file, in_root, rel_path, r_except, r_secrets) ==
    IF ~in_root THEN Result(FALSE, "relative_to", <<>>)         \* line 371
    ELSE IF ~file.readable THEN Result(FALSE, "", <<>>)          \* except Exception
    ELSE IF file.content.parse = "SyntaxError" THEN Result(FALSE, "", <<>>)
    ELSE IF file.content.parse # "ok" THEN Result(FALSE, "parse", <<>>)
    ELSE Result(TRUE, "", RunRules(file.content, rel_path, r_except, r_secrets))

(***************************************************************************)
(* findings.sort(key=lambda f: (0 if CRITICAL else 1, f.file, f.line))     *)
(***************************************************************************)
severity_rank(f) == IF f.severity = "CRITICAL" THEN 0 ELSE 1

\* the key of a is strictly below the key of b (tuple comparison)
KeyLess(a, b) ==
    \/ severity_rank(a) < severity_rank(b)
    \/ /\ severity_rank(a) = severity_rank(b)
       /\ \/ StrLess(a.file, b.file)
          \/ a.file = b.file /\ a.line < b.line

\* the key that forgets the line
KeyLessNoLine(a, b) ==
    \/ severity_rank(a) < severity_rank(b)
    \/ severity_rank(a) = severity_rank(b) /\ StrLess(a.file, b.file)

\* x goes before the first element whose key is not below x's: equal keys
\* are passed over in the wrong direction (not stable)
InsertUnstable(s, x) ==
    LET n == Cardinality({i \in 1..Len(s) : KeyLess(s[i], x)})
    IN  SubSeq(s, 1, n) \o <<x>> \o SubSeq(s, n + 1, Len(s))

InsertNoLine(s, x) ==
    LET n == Cardinality({i \in 1..Len(s) : ~KeyLessNoLine(x, s[i])})
    IN  SubSeq(s, 1, n) \o <<x>> \o SubSeq(s, n + 1, Len(s))

\* x goes after every element whose key is not above x's: the sort is stable
Insert(s, x) ==
    LET n == Cardinality({i \in 1..Len(s) : ~KeyLess(x, s[i])})
    IN  SubSeq(s, 1, n) \o <<x>> \o SubSeq(s, n + 1, Len(s))

RECURSIVE SortFrom(_, _, _)
SortFrom(s, k, acc) ==
    IF k > Len(s) THEN acc ELSE SortFrom(s, k + 1, Insert(acc, s[k]))

sort(s) == SortFrom(s, 1, <<>>)

(***************************************************************************)
(* main: accounting, verdict, exit status                                  *)
(***************************************************************************)
clean_files_after_any(clean, ok, before, after, rel_path) ==
    IF after = before THEN Append(clean, rel_path) ELSE clean

\* lines 461-464: the clean list after one file
clean_files_after(clean, ok, before, after, rel_path) ==
    IF ok /\ after = before THEN Append(clean, rel_path) ELSE clean

scanned_after(n, ok) == IF ok THEN n + 1 ELSE n

CountSeverity(fs, sev) == Cardinality({i \in 1..Len(fs) : fs[i].severity = sev})

Verdict_warning_first(critical, warning) ==
    IF warning > 0 THEN [label |-> "COMMENT", ret |-> 0]
    ELSE IF critical > 0 THEN [label |-> "REQUEST CHANGES", ret |-> 1]
    ELSE [label |-> "APPROVE", ret |-> 0]

\* lines 494-503
Verdict(critical, warning) ==
    IF critical > 0 THEN [label |-> "REQUEST CHANGES", ret |-> 1]
    ELSE IF warning > 0 THEN [label |-> "COMMENT", ret |-> 0]
    ELSE [label |-> "APPROVE", ret |-> 0]

exit_code_error_as_1(exc, ret) == IF exc # "" THEN 1 ELSE ret

\* lines 506-511: sys.exit(main()), or sys.exit(2) on an Exception
exit_code(exc, ret) == IF exc # "" THEN 2 ELSE ret

(***************************************************************************)
(* Inputs of a run: paths and file contents                                *)
(***************************************************************************)
\* relative paths as sequences of character codes: "a", "ab", "b"
Paths == { <<1>>, <<1, 2>>, <<2>> }

Line(comment, hash, hits) == [comment |-> comment, hash |-> hash, hits |-> hits]
Plain == Line(FALSE, FALSE, {})

Content(parse, t, ls) == [parse |-> parse, tree |-> t, lines |-> ls]

get_x == <<"g","e","t","_","x">>
get_item == <<"g","e","t","_","i","t","e","m">>
budget == <<"b","u","d","g","e","t">>
run == <<"r","u","n">>
f == <<"f">>
_post == <<"_","p","o","s","t">>

Corpus ==
    [ \* x = 1
      clean |-> Content("ok",
        << Module, Node("Assign", 1, "body", 1) >>,
        << Plain >>),
      \* try: / x = 1 / except: / pass
      bare_pass |-> Content("ok",
        << Module, Node("Try", 1, "body", 1), Node("Assign", 2, "body", 2),
           ExceptHandler(2, 3, FALSE), Node("Pass", 4, "body", 4) >>,
        << Plain, Plain, Plain, Plain >>),
      \* try: / x = 1 / except OSError: / pass
      typed_pass |-> Content("ok",
        << Module, Node("Try", 1, "body", 1), Node("Assign", 2, "body", 2),
           ExceptHandler(2, 3, TRUE), Node("Pass", 4, "body", 4) >>,
        << Plain, Plain, Plain, Plain >>),
      \* try: / x = 1 / except OSError: / pass  # expected
      typed_pass_comment |-> Content("ok",
        << Module, Node("Try", 1, "body", 1), Node("Assign", 2, "body", 2),
           ExceptHandler(2, 3, TRUE), Node("Pass", 4, "body", 4) >>,
        << Plain, Plain, Plain, Line(FALSE, TRUE, {}) >>),
      \* def get_x(): return eval(s)
      view_eval |-> Content("ok",
        << Module, FunctionDef(1, 1, get_x, <<>>, FALSE),
           Node("Return", 2, "body", 1), Call(3, "value", 1, "Name", "eval", "Other") >>,
        << Plain >>),
      \* API_KEY = "sk_live_abcdefghij" / # token = "ghp_..." / x = 1
      secret |-> Content("ok",
        << Module, Node("Assign", 1, "body", 1), Node("Assign", 1, "body", 3) >>,
        << Line(FALSE, FALSE, {1, 2}), Line(TRUE, TRUE, {5}), Plain >>),
      \* def f(): / print(1) / print(2); print(3); print(4)
      prints4 |-> Content("ok",
        << Module, FunctionDef(1, 1, f, <<>>, TRUE),
           Node("Expr", 2, "body", 2), Call(3, "value", 2, "Name", "print", "Other"),
           Node("Expr", 1, "body", 3), Call(5, "value", 3, "Name", "print", "Other"),
           Node("Expr", 1, "body", 3), Call(7, "value", 3, "Name", "print", "Other"),
           Node("Expr", 1, "body", 3), Call(9, "value", 3, "Name", "print", "Other") >>,
        << Plain, Plain, Plain >>),
      \* print(1) / log.print(2)
      prints1 |-> Content("ok",
        << Module,
           Node("Expr", 1, "body", 1), Call(2, "value", 1, "Name", "print", "Other"),
           Node("Expr", 1, "body", 2), Call(4, "value", 2, "Attribute", "print", "Other") >>,
        << Plain, Plain >>),
      \* cur.execute(f"SELECT {x}") / cur.execute("a" + b) / cur.execute("SELECT 1")
      sql |-> Content("ok",
        << Module,
           Node("Expr", 1, "body", 1), Call(2, "value", 1, "Attribute", "execute", "JoinedStr"),
           Node("Expr", 1, "body", 2), Call(4, "value", 2, "Attribute", "execute", "BinOp.Add"),
           Node("Expr", 1, "body", 3), Call(6, "value", 3, "Attribute", "execute", "Other") >>,
        << Plain, Plain, Plain >>),
      \* class V: / @login_required / def get_item(self) -> int: return 1
      \*          / def budget(self): return 1 / def _post(): pass / def run(): pass
      views |-> Content("ok",
        << Module, Node("ClassDef", 1, "body", 1),
           FunctionDef(2, 3, get_item,
                       << [form |-> "Name", id |-> "login_required"] >>, TRUE),
           Node("Return", 3, "body", 3),
           FunctionDef(2, 4, budget, <<>>, FALSE),
           Node("Return", 5, "body", 4),
           FunctionDef(1, 5, _post, <<>>, FALSE),
           Node("Pass", 7, "body", 5),
           FunctionDef(1, 6, run, <<>>, FALSE),
           Node("Pass", 9, "body", 6) >>,
        << Plain, Plain, Plain, Plain, Plain, Plain >>),
      \* def f(:
      broken |-> Content("SyntaxError", <<>>, << Plain >>),
      \* x = 1+1+1+ ... +1   (200000 terms)
      too_deep |-> Content("RecursionError", <<>>, << Plain >>) ]

Unreadable == [readable |-> FALSE, content |-> "?"]
Readable(c) == [readable |-> TRUE, content |-> c]

\* the file behind an entry of the log
FileOf(e) ==
    IF e.readable THEN [readable |-> TRUE, content |-> Corpus[e.content]]
    ELSE [readable |-> FALSE, content |-> Corpus["clean"]]

FileStates == {Unreadable} \cup {Readable(c) : c \in DOMAIN Corpus}

\* lists of distinct paths, in any order (os.walk order, or git diff order)
FileLists ==
    { l \in UNION { [1..n -> Paths] : n \in 0..MaxFiles } :
        \A i, j \in 1..Len(l) : i # j => l[i] # l[j] }

(***************************************************************************)
(* The run of the script                                                   *)
(***************************************************************************)
Init ==
    /\ pc = "start"
    /\ py_files = <<>>
    /\ under_root = TRUE
    /\ idx = 1
    /\ findings = <<>>
    /\ clean_files = <<>>
    /\ scanned = 0
    /\ critical_count = 0
    /\ warning_count = 0
    /\ verdict = ""
    /\ exit_status = -1
    /\ raised = ""
    /\ log = <<>>
    /\ unsorted = <<>>
    /\ tree = <<>>
    /\ lines = <<>>
    /\ opened = TRUE

RuleInputs == <<tree, lines, opened>>

\* find_project_root, read_manifest or a print raises (lines 422-443)
TopLevelError ==
    /\ pc = "start"
    /\ pc' = "raised"
    /\ raised' = "toplevel"
    /\ UNCHANGED <<py_files, under_root, idx, findings, clean_files, scanned,
                   critical_count, warning_count, verdict, exit_status, log,
                   unsorted, RuleInputs>>

\* py_files = collect_py_files(...) (line 442); with --path outside the root
\* the paths are not under root
CollectPyFiles ==
    /\ pc = "start"
    /\ \E l \in FileLists, r \in BOOLEAN :
        /\ py_files' = l
        /\ under_root' = (r \/ l = <<>>)
        /\ pc' = IF l = <<>> THEN "no_files" ELSE "analyze"
    /\ UNCHANGED <<idx, findings, clean_files, scanned, critical_count,
                   warning_count, verdict, exit_status, raised, log, unsorted,
                   RuleInputs>>

\* lines 446-450
NoFiles ==
    /\ pc = "no_files"
    /\ verdict' = "APPROVE"
    /\ exit_status' = exit_code("", 0)
    /\ pc' = "exited"
    /\ UNCHANGED <<py_files, under_root, idx, findings, clean_files, scanned,
                   critical_count, warning_count, raised, log, unsorted,
                   RuleInputs>>

\* one iteration of the for loop (lines 458-464)
AnalyzeFile ==
    /\ pc = "analyze"
    /\ idx <= Len(py_files)
    /\ \E file \in FileStates, r_except, r_secrets \in RereadOutcomes :
        LET rel_path == py_files[idx]
            before == Len(findings)
            res == analyze_file(FileOf(file), under_root, rel_path,
                                r_except, r_secrets)
            after == Len(findings \o res.appended)
        IN  /\ log' = Append(log, [path |-> rel_path, readable |-> file.readable,
                                   content |-> file.content])
            /\ IF res.exc # ""
               THEN /\ raised' = res.exc
                    /\ pc' = "raised"
                    /\ UNCHANGED <<findings, scanned, clean_files, idx>>
               ELSE /\ findings' = findings \o res.appended
                    /\ scanned' = scanned_after(scanned, res.ret)
                    /\ clean_files' = clean_files_after(clean_files, res.ret,
                                                        before, after, rel_path)
                    /\ idx' = idx + 1
                    /\ UNCHANGED <<raised, pc>>
    /\ UNCHANGED <<py_files, under_root, critical_count, warning_count, verdict,
                   exit_status, unsorted, RuleInputs>>

\* line 467
SortFindings ==
    /\ pc = "analyze"
    /\ idx > Len(py_files)
    /\ unsorted' = findings
    /\ findings' = sort(findings)
    /\ pc' = "report"
    /\ UNCHANGED <<py_files, under_root, idx, clean_files, scanned,
                   critical_count, warning_count, verdict, exit_status, raised,
                   log, RuleInputs>>

\* lines 477-503 and sys.exit(main())
Report ==
    /\ pc = "report"
    /\ critical_count' = CountSeverity(findings, "CRITICAL")
    /\ warning_count' = CountSeverity(findings, "WARNING")
    /\ verdict' = Verdict(critical_count', warning_count').label
    /\ exit_status' = exit_code("", Verdict(critical_count', warning_count').ret)
    /\ pc' = "exited"
    /\ UNCHANGED <<py_files, under_root, idx, findings, clean_files, scanned,
                   raised, log, unsorted, RuleInputs>>

\* lines 509-511
RuntimeError ==
    /\ pc = "raised"
    /\ exit_status' = exit_code(raised, 0)
    /\ pc' = "exited"
    /\ UNCHANGED <<py_files, under_root, idx, findings, clean_files, scanned,
                   critical_count, warning_count, verdict, raised, log, unsorted,
                   RuleInputs>>

Next ==
    \/ TopLevelError
    \/ CollectPyFiles
    \/ NoFiles
    \/ AnalyzeFile
    \/ SortFindings
    \/ Report
    \/ RuntimeError

Spec == Init /\ [][Next]_vars

(***************************************************************************)
(* check_print_statements on its own, over every small tree                *)
(***************************************************************************)
\* the last node of t and its ancestors: where the next node in source order
\* can be attached
RECURSIVE Ancestors(_, _)
Ancestors(t, n) == IF n = 0 THEN {} ELSE {n} \cup Ancestors(t, t[n].parent)

\* what a node of a generated tree is: any node that is not a call, a call
\* of the name print, or a call of an attribute named print (obj.print())
NodeKinds == {"Expr", "print", "obj.print"}

GenNode(kind, parent, lineno) ==
    IF kind = "Expr" THEN Node("Expr", parent, "body", lineno)
    ELSE IF kind = "print" THEN Call(parent, "value", lineno, "Name", "print", "Other")
    ELSE Call(parent, "value", lineno, "Attribute", "print", "Other")

RuleInit ==
    /\ pc = "rule_in"
    /\ py_files = <<>>
    /\ under_root = TRUE
    /\ idx = 1
    /\ findings = <<>>
    /\ clean_files = <<>>
    /\ scanned = 0
    /\ critical_count = 0
    /\ warning_count = 0
    /\ verdict = ""
    /\ exit_status = -1
    /\ raised = ""
    /\ log = <<>>
    /\ unsorted = <<>>

RuleUnchanged ==
    UNCHANGED <<py_files, under_root, idx, clean_files, scanned, critical_count,
                warning_count, verdict, exit_status, raised, log, unsorted,
                tree, lines, opened>>

InitPrint ==
    /\ RuleInit
    /\ tree = << Module >>
    /\ lines = <<>>
    /\ opened = TRUE

\* the text ast.parse is given grows by one node, in source order: the node
\* hangs under the last node or one of its ancestors, two nodes to a line
ParseNode ==
    /\ pc = "rule_in"
    /\ Len(tree) < MaxNodes
    /\ \E k \in NodeKinds, p \in Ancestors(tree, Len(tree)) :
          tree' = Append(tree, GenNode(k, p, (Len(tree) + 1) \div 2))
    /\ UNCHANGED <<pc, py_files, under_root, idx, findings, clean_files, scanned,
                   critical_count, warning_count, verdict, exit_status, raised,
                   log, unsorted, lines, opened>>

ApplyPrintRule ==
    /\ pc = "rule_in"
    /\ findings' = findings \o check_print_statements(tree, <<1>>)
    /\ pc' = "rule_out"
    /\ RuleUnchanged

NextPrint == ParseNode \/ ApplyPrintRule

SpecPrint == InitPrint /\ [][NextPrint]_vars

(***************************************************************************)
(* check_hardcoded_secrets on its own, over every short file               *)
(***************************************************************************)
\* the entries of the table a line can match: none, one, two, or all
HitSets == { h \in SUBSET (1..Len(SECRET_PATTERNS)) :
               Cardinality(h) <= 2 \/ h = 1..Len(SECRET_PATTERNS) }

\* a line whose stripped text starts with '#' contains '#'
LineKinds == { Line(c, c, h) : c \in BOOLEAN, h \in HitSets }

InitSecrets ==
    /\ RuleInit
    /\ tree = <<>>
    /\ lines \in UNION { [1..n -> LineKinds] : n \in 0..MaxLines }
    /\ opened \in BOOLEAN

ApplySecretsRule ==
    /\ pc = "rule_in"
    /\ findings' = findings \o
          check_hardcoded_secrets(IF opened THEN Opened(lines) ELSE OpenFailed, <<1>>)
    /\ pc' = "rule_out"
    /\ RuleUnchanged

NextSecrets == ApplySecretsRule

SpecSecrets == InitSecrets /\ [][NextSecrets]_vars

(***************************************************************************)
(* Properties                                                              *)
(***************************************************************************)
Count(fs, P(_)) == Cardinality({i \in 1..Len(fs) : P(fs[i])})

NCritical == Count(findings, LAMBDA x : x.severity = "CRITICAL")
NWarning == Count(findings, LAMBDA x : x.severity = "WARNING")

\* main returned (it did not raise)
Completed == pc = "exited" /\ raised = ""

\* findings.sort has run
AfterSort == pc = "report" \/ (Completed /\ py_files # <<>>)

\* the for loop of main is over and the sort has not run yet
LoopDone == pc = "analyze" /\ idx > Len(py_files)

\* the file of a log entry was read and parsed
Analyzed(e) == e.readable /\ Corpus[e.content].parse = "ok"

SameTriple(a, b) ==
    a.severity = b.severity /\ a.file = b.file /\ a.line = b.line

\* C1: when main returns, the verdict is REQUEST CHANGES iff there is a
\* CRITICAL finding, APPROVE iff there is no finding at all or the file list
\* is empty, and COMMENT iff there is no CRITICAL and some WARNING finding;
\* only the severities of the findings enter.
C1_VerdictFromCounts ==
    Completed =>
        /\ verdict \in {"REQUEST CHANGES", "APPROVE", "COMMENT"}
        /\ (verdict = "REQUEST CHANGES") <=> (NCritical > 0)
        /\ (verdict = "APPROVE") <=>
              ((NCritical = 0 /\ NWarning = 0) \/ py_files = <<>>)
        /\ (verdict = "COMMENT") <=> (NCritical = 0 /\ NWarning > 0)

\* a run that ends in COMMENT although a WARNING has confidence 90
C1_Witness ==
    /\ Completed
    /\ verdict = "COMMENT"
    /\ \E i \in 1..Len(findings) : findings[i].confidence >= 90

\* C2: the exit status is 0 exactly when main returns with no CRITICAL
\* finding, 1 exactly when main returns with a CRITICAL finding, 2 exactly
\* when an exception leaves main; no other status is produced.
C2_ExitStatus ==
    IF pc = "exited"
    THEN /\ exit_status \in {0, 1, 2}
         /\ (exit_status = 0) <=> (raised = "" /\ NCritical = 0)
         /\ (exit_status = 1) <=> (raised = "" /\ NCritical > 0)
         /\ (exit_status = 2) <=> (raised # "")
    ELSE exit_status = -1

\* a run that ends with status 2
C2_Witness == pc = "exited" /\ exit_status = 2 /\ raised = "toplevel"

\* C3: a file that cannot be read or parsed never aborts the run: it adds no
\* finding, is not counted as scanned, is not listed clean, and the run still
\* ends with status 0 or 1.
C3_FailingFileIsSkipped ==
    \A k \in 1..Len(log) :
        (under_root /\ ~Analyzed(log[k])) =>
            /\ raised = ""
            /\ \A i \in 1..Len(findings) : findings[i].file # log[k].path
            /\ log[k].path \notin Range(clean_files)
            /\ scanned <= Cardinality({j \in 1..Len(log) : Analyzed(log[j])})
            /\ pc = "exited" => exit_status \in {0, 1}

\* C4: after the sort the findings are non-decreasing in (severity rank,
\* file, line), so every CRITICAL finding precedes every WARNING finding,
\* and they are a permutation of the findings appended during the analysis.
C4_SortedPermutation ==
    AfterSort =>
        /\ \A i \in 1..(Len(findings) - 1) :
              LET a == findings[i]
                  b == findings[i + 1]
              IN  \/ a.severity = "CRITICAL" /\ b.severity = "WARNING"
                  \/ /\ a.severity = b.severity
                     /\ \/ StrLess(a.file, b.file)
                        \/ a.file = b.file /\ a.line <= b.line
        /\ \A i, j \in 1..Len(findings) :
              (findings[i].severity = "CRITICAL" /\ findings[j].severity = "WARNING")
                  => i < j
        /\ Len(findings) = Len(unsorted)
        /\ \A x \in Range(findings) \cup Range(unsorted) :
              Count(findings, LAMBDA y : y = x) = Count(unsorted, LAMBDA y : y = x)

\* a sort that had to move findings
C4_Witness ==
    /\ AfterSort
    /\ Len(findings) >= 3
    /\ findings # unsorted
    /\ \E i \in 1..Len(findings) : findings[i].severity = "CRITICAL"
    /\ \E i \in 1..Len(findings) : findings[i].severity = "WARNING"

\* the print() call sites of a tree, read off the nodes
PrintSites(t) ==
    {i \in 1..Len(t) : t[i].kind = "Call" /\ t[i].func = [form |-> "Name", id |-> "print"]}

\* C5: with n print() calls in the file, check_print_statements appends
\* nothing if n = 0, n WARNING findings of confidence 75, one at the line of
\* each call, if 1 <= n <= 3, and one WARNING finding of confidence 80
\* carrying n if n > 3.
C5_PrintThreshold ==
    pc = "rule_out" =>
        LET n == Cardinality(PrintSites(tree))
        IN  /\ n = 0 => findings = <<>>
            /\ (1 <= n /\ n <= 3) =>
                  /\ Len(findings) = n
                  /\ \A i \in 1..Len(findings) :
                        /\ findings[i].severity = "WARNING"
                        /\ findings[i].confidence = 75
                        /\ findings[i].issue.n = 0
                  /\ \A l \in 0..Len(tree) :
                        Count(findings, LAMBDA x : x.line = l)
                            = Cardinality({i \in PrintSites(tree) : tree[i].lineno = l})
            /\ n > 3 =>
                  /\ Len(findings) = 1
                  /\ findings[1].severity = "WARNING"
                  /\ findings[1].confidence = 80
                  /\ findings[1].issue.n = n

\* exactly three calls, reported one by one
C5_Witness ==
    /\ pc = "rule_out"
    /\ Cardinality(PrintSites(tree)) = 3
    /\ Len(findings) = 3

\* C6: check_hardcoded_secrets appends at most one finding per line: for a
\* line it scans that is no comment and matches some entry, exactly one
\* CRITICAL finding of confidence 90 labelled by the first matching entry;
\* for a comment line or a line matching no entry, none.
C6_OneFindingPerLine ==
    pc = "rule_out" =>
        /\ \A l \in 0..(Len(lines) + 1) : Count(findings, LAMBDA x : x.line = l) <= 1
        /\ \A i \in 1..Len(findings) : findings[i].line \in 1..Len(lines)
        /\ opened =>
              \A l \in 1..Len(lines) :
                  IF ~lines[l].comment /\ lines[l].hits # {}
                  THEN \E i \in 1..Len(findings) :
                          /\ findings[i].line = l
                          /\ findings[i].severity = "CRITICAL"
                          /\ findings[i].confidence = 90
                          /\ \E k \in lines[l].hits :
                                /\ \A j \in lines[l].hits : k <= j
                                /\ findings[i].issue.label = SECRET_PATTERNS[k]
                  ELSE \A i \in 1..Len(findings) : findings[i].line # l

\* a line matching two entries and a comment line matching one
C6_Witness ==
    /\ pc = "rule_out"
    /\ opened
    /\ Len(lines) = 2
    /\ lines[1].comment /\ lines[1].hits # {}
    /\ ~lines[2].comment /\ Cardinality(lines[2].hits) = 2
    /\ Len(findings) = 1

\* the entries of the log that add no finding whatever the rules read
MatchFree(c) ==
    /\ \A n \in 1..Len(c.tree) :
          /\ c.tree[n].kind \notin {"FunctionDef", "Call"}
          /\ c.tree[n].kind = "ExceptHandler" =>
                /\ c.tree[n].type
                /\ \A m \in 1..Len(c.tree) :
                      (c.tree[m].parent = n /\ c.tree[m].kind = "Pass")
                          => c.lines[c.tree[m].lineno].hash
    /\ \A l \in 1..Len(c.lines) : c.lines[l].comment \/ c.lines[l].hits = {}

\* C7: when the loop of main ends, scanned is the number of files read and
\* parsed, clean_files holds exactly the analysed files without a finding,
\* each once, no finding carries the path of a clean file, and a file with
\* nothing for any rule to match is clean.
C7_LoopAccounting ==
    LoopDone =>
        /\ Len(log) = Len(py_files)
        /\ scanned = Cardinality({k \in 1..Len(log) : Analyzed(log[k])})
        /\ Range(clean_files) =
              { log[k].path : k \in
                  { k \in 1..Len(log) :
                      /\ Analyzed(log[k])
                      /\ \A i \in 1..Len(findings) : findings[i].file # log[k].path } }
        /\ \A i, j \in 1..Len(clean_files) : i # j => clean_files[i] # clean_files[j]
        /\ \A i \in 1..Len(findings) : findings[i].file \notin Range(clean_files)
        /\ \A k \in 1..Len(log) :
              (Analyzed(log[k]) /\ MatchFree(Corpus[log[k].content]))
                  => log[k].path \in Range(clean_files)

\* a loop over a skipped file, a clean file and a file with findings
C7_Witness ==
    /\ LoopDone
    /\ Len(py_files) = 2
    /\ scanned = 1
    /\ \E k \in 1..Len(log) : ~Analyzed(log[k])
    /\ Len(clean_files) = 1

\* C8: with more than three print() calls, the one finding is at the line of
\* the call that comes first in the file, the smallest line of a call site.
C8_AggregateAtFirstLine ==
    (pc = "rule_out" /\ Cardinality(PrintSites(tree)) > 3) =>
        /\ Len(findings) = 1
        /\ \A i \in PrintSites(tree) : findings[1].line <= tree[i].lineno

\* C9 as claimed: no two findings of a run share (severity, file, line).
C9_TriplesAreUnique ==
    AfterSort =>
        \A i, j \in 1..Len(findings) :
            i # j => ~SameTriple(findings[i], findings[j])

\* C9 as amended: findings can share (severity, file, line); the sort keeps
\* the findings of one triple in the order in which they were appended.
C9_TiesKeepAppendOrder ==
    AfterSort =>
        \A i \in 1..Len(findings) :
            SelectSeq(findings, LAMBDA x : SameTriple(x, findings[i]))
                = SelectSeq(unsorted, LAMBDA x : SameTriple(x, findings[i]))

\* two different findings on one triple, in rule order: the bare-except
\* finding before the empty-body finding
C9_Witness ==
    /\ AfterSort
    /\ \E i \in 1..(Len(findings) - 1) :
          /\ SameTriple(findings[i], findings[i + 1])
          /\ findings[i].confidence = 90
          /\ findings[i + 1].confidence = 85

\* C10: once a file is read and parsed, the findings carrying its path are
\* everything the eight rules match in the file that was read.
C10_EveryRuleEvaluates ==
    pc = "analyze" =>
        \A k \in 1..Len(log) :
            Analyzed(log[k]) =>
                SelectSeq(findings, LAMBDA x : x.file = log[k].path)
                    = RunRules(Corpus[log[k].content], log[k].path, "same", "same")

====
